---- MODULE Spec2Model ----
(***************************************************************************)
(* FsEventWatcher (src/src/fsevent.rs): the watch-session manager, its     *)
(* background run-loop thread, the two handshake channels, the native      *)
(* callback and the flag translator.                                       *)
(*                                                                         *)
(* The controlling thread executes watch / unwatch / run / stop / drop.    *)
(* A call runs atomically up to the next blocking receive (done.recv() in  *)
(* stop, rl_rx.recv() in run); the receive and everything up to the next   *)
(* blocking point is the next step.  Each session's background thread is   *)
(* a separate process whose steps interleave with the controller's.        *)
(***************************************************************************)
EXTENDS Integers, Sequences, FiniteSets, TLC

\* ---------------------------------------------------------------- bounds
MaxSessions == 2        \* sessions (background threads) ever started
MaxRecords  == 3        \* raw records the native service delivers in total
MaxPaths    == 3        \* length of the path arrays remove_path is exercised on

Sessions == 1 .. MaxSessions

\* ------------------------------------------------------- program constants
NoSession == 0          \* Option::None of runloop / context

\* fse::StreamFlags bits used by translate_flags, and the item-type bit
ITEM_CREATED   == 256
ITEM_REMOVED   == 512
ITEM_RENAMED   == 2048
ITEM_MODIFIED  == 4096
ITEM_XATTR_MOD == 32768
IS_FILE        == 65536
\* one past the highest bit StreamFlags defines: from_bits rejects it
FLAGS_LIMIT    == 524288

\* op::Op bits
CHMOD  == 1
CREATE == 2
REMOVE == 4
RENAME == 8
WRITE  == 16

VARIABLES
  paths,        \* self.paths: the CFMutableArray, a sequence of path strings
  runloop,      \* self.runloop: NoSession, or the loop handle (its thread's session)
  context,      \* self.context: NoSession, or the session whose StreamContextInfo is boxed
  ctl,          \* controlling thread: "idle", "stop_recv", "run_recv", "panicked", "dropped"
  op,           \* the call in progress: "watch", "unwatch", "run", "stop", "drop"; "none" between calls
  arg,          \* its path argument
  result,       \* what the last finished call returned: "Ok", "PathNotFound", "unit"; "none" while in progress
  nextSession,  \* number of the next session run() will start
  thread,       \* thread[s]: position of session s's background thread
  stream,       \* stream[s]: the FSEventStream of session s: [st, releases]
  stopFlag,     \* stopFlag[s]: run loop s has a stop request pending
  rlchan,       \* rlchan[s]: content of the rendezvous channel (rl_tx, rl_rx) of session s
  done,         \* done[s]: completion channel of session s: "empty", "sent", "received"
  ctxAlive,     \* ctxAlive[s]: the Box<StreamContextInfo> of session s is allocated
  rxAlive,      \* the consumer still holds the Receiver<Event>
  out,          \* events published on the outbound channel, in order: [session, event]
  delivered,    \* batches the native service handed to callback, in order
  fault         \* "none", or what killed the process: "remove_path" (array read out of
                \* range), "runloop" (CFRunLoopStop on a dead loop), "context" (callback
                \* used a freed context), "abort" (panic inside the extern "C" callback)

vars == <<paths, runloop, context, ctl, op, arg, result, nextSession, thread,
          stream, stopFlag, rlchan, done, ctxAlive, rxAlive, out, delivered, fault>>

\* The whole state as one record, so that the code's functions are operators
\* from a state to the set of states they can produce.
St ==
  [paths |-> paths, runloop |-> runloop, context |-> context, ctl |-> ctl,
   op |-> op, arg |-> arg, result |-> result, nextSession |-> nextSession,
   thread |-> thread, stream |-> stream, stopFlag |-> stopFlag,
   rlchan |-> rlchan, done |-> done, ctxAlive |-> ctxAlive, rxAlive |-> rxAlive,
   out |-> out, delivered |-> delivered, fault |-> fault]

Becomes(m) ==
  /\ paths' = m.paths             /\ runloop' = m.runloop
  /\ context' = m.context         /\ ctl' = m.ctl
  /\ op' = m.op                   /\ arg' = m.arg
  /\ result' = m.result           /\ nextSession' = m.nextSession
  /\ thread' = m.thread           /\ stream' = m.stream
  /\ stopFlag' = m.stopFlag       /\ rlchan' = m.rlchan
  /\ done' = m.done               /\ ctxAlive' = m.ctxAlive
  /\ rxAlive' = m.rxAlive         /\ out' = m.out
  /\ delivered' = m.delivered     /\ fault' = m.fault

\* ------------------------------------------------------------ path strings
\* Arguments of watch and unwatch.  The first three differ only in case.
WatchArgs   == {"/tmp/X", "/TMP/x", "/b"}
UnwatchArgs == {"/tmp/X", "/TMP/x", "/tmp/x", "/b"}

\* Case folding, as kCFCompareCaseInsensitive applies it.
FoldCase(p) == IF p \in {"/tmp/X", "/TMP/x", "/tmp/x"} THEN "/tmp/x" ELSE p

\* CFStringCompare(item, cf_path, kCFCompareCaseInsensitive)
CFStringCompare(a, b) ==
  IF FoldCase(a) = FoldCase(b) THEN "kCFCompareEqualTo" ELSE "kCFCompareNotEqual"

\* ---------------------------------------------------- FsEventWatcher::new
Init ==
  /\ paths = << >>
  /\ runloop = NoSession
  /\ context = NoSession
  /\ ctl = "idle"
  /\ op = "none"
  /\ arg = ""
  /\ result = "Ok"
  /\ nextSession = 1
  /\ thread = [s \in Sessions |-> "none"]
  /\ stream = [s \in Sessions |-> [st |-> "none", releases |-> 0]]
  /\ stopFlag = [s \in Sessions |-> FALSE]
  /\ rlchan = [s \in Sessions |-> << >>]
  /\ done = [s \in Sessions |-> "empty"]
  /\ ctxAlive = [s \in Sessions |-> FALSE]
  /\ rxAlive = TRUE
  /\ out = << >>
  /\ delivered = << >>
  /\ fault = "none"

\* ------------------------------------------------- native subscription calls
\* The FSEventStream's life: created -> scheduled -> started -> stopped ->
\* invalidated -> released; a call out of order leaves it in "error".
FSEventStreamCreate == [st |-> "created", releases |-> 0]

FSEventStreamScheduleWithRunLoop(x) ==
  [x EXCEPT !.st = IF x.st = "created" THEN "scheduled" ELSE "error"]

FSEventStreamStart(x) ==
  [x EXCEPT !.st = IF x.st = "scheduled" THEN "started" ELSE "error"]

FSEventStreamStop(x) ==
  [x EXCEPT !.st = IF x.st = "started" THEN "stopped" ELSE "error"]

FSEventStreamInvalidate(x) ==
  [x EXCEPT !.st = IF x.st = "stopped" THEN "invalidated" ELSE "error"]

FSEventStreamRelease(x) ==
  [x EXCEPT !.st = IF x.st = "invalidated" THEN "released" ELSE "error",
            !.releases = @ + 1]

\* ------------------------------------------------------------- the manager
is_running(m) == m.runloop # NoSession

\* cf::CFRunLoopStop(runloop), called from the controlling thread.  A loop
\* that is inside CFRunLoopRun records the request and leaves the loop.  A
\* loop whose thread has sent its handle but has not entered CFRunLoopRun yet
\* is not running: the request is either remembered until the loop is entered
\* or has no effect.  A handle whose thread is gone dangles: the call does
\* nothing or faults.
CFRunLoopStop(m, rl) ==
  IF m.thread[rl] = "loop" THEN {[m EXCEPT !.stopFlag[rl] = TRUE]}
  ELSE IF m.thread[rl] = "sent" THEN {[m EXCEPT !.stopFlag[rl] = TRUE], m}
  ELSE {m, [m EXCEPT !.fault = "runloop"]}

\* Mutant of stop_signal: `self.runloop = None` (line 72) is missing.
stop_signal_KeepsRunloop(m) ==
  IF ~is_running(m)
  THEN {[m EXCEPT !.ctl = "stop_ret"]}
  ELSE {IF x.fault # "none" THEN x
        ELSE IF x.context # NoSession
        THEN [x EXCEPT !.ctl = "stop_recv"]
        ELSE [x EXCEPT !.context = NoSession, !.ctl = "stop_ret"]
        : x \in CFRunLoopStop(m, m.runloop)}

\* Mutant of stop_signal: the context is dropped (line 81) before the
\* completion signal is waited for.
stop_signal_DropsContext(m) ==
  IF ~is_running(m)
  THEN {[m EXCEPT !.ctl = "stop_ret"]}
  ELSE {IF x.fault # "none" THEN x
        ELSE IF x.context # NoSession
        THEN [x EXCEPT !.runloop = NoSession, !.ctxAlive[x.context] = FALSE,
                       !.ctl = "stop_recv"]
        ELSE [x EXCEPT !.runloop = NoSession, !.context = NoSession, !.ctl = "stop_ret"]
        : x \in CFRunLoopStop(m, m.runloop)}

\* stop(), lines 60-72: up to the blocking done.recv().  ctl = "stop_ret"
\* marks that stop() has returned without blocking.
stop_signal(m) ==
  IF ~is_running(m)
  THEN {[m EXCEPT !.ctl = "stop_ret"]}
  ELSE {IF x.fault # "none" THEN x
        ELSE IF x.context # NoSession
        THEN [x EXCEPT !.runloop = NoSession, !.ctl = "stop_recv"]
        ELSE [x EXCEPT !.runloop = NoSession, !.context = NoSession, !.ctl = "stop_ret"]
        : x \in CFRunLoopStop(m, m.runloop)}

\* Mutant of stop_received: `self.context = None` (line 81) is missing.
stop_received_KeepsContext(m) ==
  [m EXCEPT !.done[m.context] = "received", !.ctl = "stop_ret"]

\* stop(), lines 73-81: done.recv() has returned Ok(()); the context is dropped.
stop_received(m) ==
  [m EXCEPT !.done[m.context] = "received",
            !.ctxAlive[m.context] = FALSE,
            !.context = NoSession,
            !.ctl = "stop_ret"]

\* append_path: CFArrayAppendValue(self.paths, cf_path)
append_path(arr, source) == Append(arr, source)

\* CFArrayRemoveValueAtIndex, idx counted from 0
CFArrayRemoveValueAtIndex(arr, idx) ==
  SubSeq(arr, 1, idx) \o SubSeq(arr, idx + 2, Len(arr))

\* remove_path: the loop `for idx in 0 .. CFArrayGetCount(self.paths)`, whose
\* bound count is read once.  CFArrayGetValueAtIndex at an index past the
\* current length reads outside the array: the process faults, or the loop
\* goes on with an item that compares unequal.  An outcome records the array,
\* whether an index was out of range, and whether the process faulted.
RECURSIVE remove_loop(_, _, _, _, _)
remove_loop(arr, source, idx, count, oob) ==
  IF idx >= count
  THEN {[paths |-> arr, oob |-> oob, crashed |-> FALSE]}
  ELSE IF idx >= Len(arr)
  THEN {[paths |-> arr, oob |-> TRUE, crashed |-> TRUE]}
       \cup remove_loop(arr, source, idx + 1, count, TRUE)
  ELSE IF CFStringCompare(arr[idx + 1], source) = "kCFCompareEqualTo"
  THEN remove_loop(CFArrayRemoveValueAtIndex(arr, idx), source, idx + 1, count, oob)
  ELSE remove_loop(arr, source, idx + 1, count, oob)

remove_path(arr, source) == remove_loop(arr, source, 0, Len(arr), FALSE)

\* What the public call in progress returns once run() has returned r:
\* watch and run return r, unwatch ignores it and returns Ok.
run_ret(m, r) ==
  [m EXCEPT !.ctl = "idle", !.op = "none", !.arg = "",
            !.result = IF m.op = "unwatch" THEN "Ok" ELSE r]

\* Mutant of run_enter: the check for an empty path array (lines 107-109) is
\* missing.
run_enter_NoEmptyCheck(m) ==
  LET s == m.nextSession
      old == m.context
      freed == IF old # NoSession THEN [m.ctxAlive EXCEPT ![old] = FALSE]
               ELSE m.ctxAlive
  IN [m EXCEPT !.context = s,
               !.ctxAlive = [freed EXCEPT ![s] = TRUE],
               !.stream[s] = FSEventStreamCreate,
               !.thread[s] = "spawned",
               !.nextSession = s + 1,
               !.ctl = "run_recv"]

\* run(), lines 106-157: up to the blocking rl_rx.recv().  A new context
\* replaces the boxed one (dropping it), the stream is created and the
\* background thread spawned.
run_enter(m) ==
  IF Len(m.paths) = 0
  THEN run_ret(m, "PathNotFound")
  ELSE LET s == m.nextSession
           old == m.context
           freed == IF old # NoSession THEN [m.ctxAlive EXCEPT ![old] = FALSE]
                    ELSE m.ctxAlive
       IN [m EXCEPT !.context = s,
                    !.ctxAlive = [freed EXCEPT ![s] = TRUE],
                    !.stream[s] = FSEventStreamCreate,
                    !.thread[s] = "spawned",
                    !.nextSession = s + 1,
                    !.ctl = "run_recv"]

\* Mutant of run_received: a successful run() drops the first watched path.
run_received_DropsPath(m, h) ==
  run_ret([m EXCEPT !.runloop = h, !.paths = Tail(@)], "Ok")

\* run(), lines 159-161: the handle h has been received.
run_received(m, h) == run_ret([m EXCEPT !.runloop = h], "Ok")

\* Drop for FsEventWatcher after self.stop(): CFRelease(self.paths), then the
\* fields are dropped: the sender and whatever context is still boxed.
drop_release(m) ==
  [m EXCEPT !.ctl = "dropped", !.op = "none", !.arg = "", !.result = "unit",
            !.paths = << >>,
            !.ctxAlive = IF m.context # NoSession
                         THEN [@ EXCEPT ![m.context] = FALSE] ELSE @,
            !.context = NoSession]

\* The rest of the public call m.op once its self.stop() has returned.
after_stop(m) ==
  CASE m.op = "stop"    -> {[m EXCEPT !.ctl = "idle", !.op = "none", !.result = "unit"]}
    [] m.op = "drop"    -> {drop_release(m)}
    [] m.op = "watch"   -> {run_enter([m EXCEPT !.paths = append_path(m.paths, m.arg)])}
    [] m.op = "unwatch" ->
         {IF r.crashed THEN [m EXCEPT !.paths = r.paths, !.fault = "remove_path"]
          ELSE run_enter([m EXCEPT !.paths = r.paths])
          : r \in remove_path(m.paths, m.arg)}

\* A public call that begins with self.stop(): watch, unwatch, stop, drop.
call(m, o, p) ==
  LET m1 == [m EXCEPT !.op = o, !.arg = p, !.result = "none"]
  IN UNION {IF x.fault # "none" \/ x.ctl = "stop_recv" THEN {x} ELSE after_stop(x)
            : x \in stop_signal(m1)}

\* Mutant of drop: Drop releases the paths without calling self.stop().
drop_NoStop(m) == {drop_release([m EXCEPT !.op = "drop", !.arg = "", !.result = "none"])}

\* Mutant of unwatch: the self.stop() of line 216 is missing.
unwatch_NoStop(m, p) ==
  after_stop([m EXCEPT !.op = "unwatch", !.arg = p, !.result = "none"])

watch(m, p)   == call(m, "watch", p)
unwatch(m, p) == call(m, "unwatch", p)
stop(m)       == call(m, "stop", "")
drop(m)       == call(m, "drop", "")
run(m)        == {run_enter([m EXCEPT !.op = "run", !.arg = "", !.result = "none"])}

\* ------------------------------------------------ controlling-thread actions
Live == fault = "none"

\* The bound of the model: a call is taken only with an outcome that starts
\* no more than MaxSessions sessions (which also bounds the path array, as
\* every append is followed by a session start).
InBounds(m) == m.nextSession <= MaxSessions + 1

CanFinish(m) ==
  IF m.ctl = "stop_recv"
  THEN \E y \in after_stop(stop_received(m)) : InBounds(y)
  ELSE TRUE

WatchCall(p) ==
  /\ Live /\ ctl = "idle"
  /\ \E m \in watch(St, p) : InBounds(m) /\ CanFinish(m) /\ Becomes(m)

UnwatchCall(p) ==
  /\ Live /\ ctl = "idle"
  /\ \E m \in unwatch(St, p) : InBounds(m) /\ CanFinish(m) /\ Becomes(m)

RunCall ==
  /\ Live /\ ctl = "idle"
  /\ \E m \in run(St) : InBounds(m) /\ Becomes(m)

StopCall ==
  /\ Live /\ ctl = "idle"
  /\ \E m \in stop(St) : Becomes(m)

DropCall ==
  /\ Live /\ ctl = "idle"
  /\ \E m \in drop(St) : Becomes(m)

\* Mutant of StopRecv: stop() does not wait for the completion signal.
StopRecv_NoWait ==
  /\ Live /\ ctl = "stop_recv"
  /\ \E m \in after_stop(stop_received(St)) : InBounds(m) /\ Becomes(m)

\* Mutant of StopRecv: the Err of done.recv() (line 77) is treated like Ok(()).
StopRecv_IgnoresErr ==
  /\ Live /\ ctl = "stop_recv"
  /\ \/ /\ done[context] = "sent"
        /\ \E m \in after_stop(stop_received(St)) : InBounds(m) /\ Becomes(m)
     \/ /\ done[context] = "empty" /\ thread[context] = "panicked"
        /\ \E m \in after_stop([St EXCEPT !.ctxAlive[context] = FALSE,
                                           !.context = NoSession,
                                           !.ctl = "stop_ret"]) :
             InBounds(m) /\ Becomes(m)

\* done.recv() in stop() returns: Ok(()) when the completion signal is in the
\* channel, Err when the thread is gone and has dropped done_tx without
\* sending, which panics.
StopRecv ==
  /\ Live /\ ctl = "stop_recv"
  /\ \/ /\ done[context] = "sent"
        /\ \E m \in after_stop(stop_received(St)) : InBounds(m) /\ Becomes(m)
     \/ /\ done[context] = "empty" /\ thread[context] = "panicked"
        /\ Becomes([St EXCEPT !.ctl = "panicked"])

\* rl_rx.recv() in run() returns the loop handle.
RunRecv ==
  /\ Live /\ ctl = "run_recv"
  /\ rlchan[context] # << >>
  /\ Becomes(run_received([St EXCEPT !.rlchan[context] = Tail(@)], Head(rlchan[context])))


\* ------------------------------------------------------ flags and records
\* StreamFlags::contains for a one-bit flag, Op::insert for a one-bit op
contains(flags, bit) == (flags \div bit) % 2 = 1
insert(ret, bit) == IF contains(ret, bit) THEN ret ELSE ret + bit

\* Mutant of translate_flags: the ITEM_MODIFIED test (lines 43-45) is missing.
translate_flags_NoModified(flags) ==
  LET r0 == 0
      r1 == IF contains(flags, ITEM_XATTR_MOD) THEN insert(r0, CHMOD)  ELSE r0
      r2 == IF contains(flags, ITEM_CREATED)   THEN insert(r1, CREATE) ELSE r1
      r3 == IF contains(flags, ITEM_REMOVED)   THEN insert(r2, REMOVE) ELSE r2
      r4 == IF contains(flags, ITEM_RENAMED)   THEN insert(r3, RENAME) ELSE r3
  IN r4

translate_flags(flags) ==
  LET r0 == 0
      r1 == IF contains(flags, ITEM_XATTR_MOD) THEN insert(r0, CHMOD)  ELSE r0
      r2 == IF contains(flags, ITEM_CREATED)   THEN insert(r1, CREATE) ELSE r1
      r3 == IF contains(flags, ITEM_REMOVED)   THEN insert(r2, REMOVE) ELSE r2
      r4 == IF contains(flags, ITEM_RENAMED)   THEN insert(r3, RENAME) ELSE r3
      r5 == IF contains(flags, ITEM_MODIFIED)  THEN insert(r4, WRITE)  ELSE r4
  IN r5

\* An Option is the empty set (None) or a singleton (Some).
\* StreamFlags::from_bits: None when a bit outside StreamFlags is set.
from_bits(raw) == IF raw < FLAGS_LIMIT THEN {raw} ELSE {}

\* std::str::from_utf8 on the record's path bytes; the model's paths are
\* ASCII bytes or contain the byte 255, which no UTF-8 text contains.
from_utf8(bytes) == IF \A i \in 1 .. Len(bytes) : bytes[i] < 128 THEN {bytes} ELSE {}

\* Raw records the native service delivers: two well-formed ones, one whose
\* path is not UTF-8, one with a flag bit StreamFlags does not know.
RecCreated == [path |-> <<102>>, flags |-> ITEM_CREATED + IS_FILE]
RecRenamed == [path |-> <<103>>, flags |-> ITEM_RENAMED + ITEM_MODIFIED]
RecBadUtf8 == [path |-> <<255>>, flags |-> ITEM_REMOVED]
RecBadFlag == [path |-> <<102>>, flags |-> FLAGS_LIMIT]

\* The batches callback is invoked with: a single record, two records in one
\* batch, a malformed record after and before well-formed ones.
Batches ==
  { <<RecCreated>>,
    <<RecRenamed, RecCreated>>,
    <<RecCreated, RecBadFlag, RecRenamed>>,
    <<RecBadUtf8, RecCreated>> }

\* ------------------------------------------------------------ the callback
\* A panic inside the extern "C" callback unwinds into the native run loop:
\* the thread dies (dropping done_tx unsent) or the process aborts.
callback_panic(m, s) ==
  {[m EXCEPT !.thread[s] = "panicked"], [m EXCEPT !.fault = "abort"]}

\* Mutant of callback_loop: a record whose flags or path cannot be decoded is
\* skipped instead of ending the callback (the expects of lines 186 and 188).
RECURSIVE callback_loop_SkipsMalformed(_, _, _, _)
callback_loop_SkipsMalformed(m, s, batch, p) ==
  IF p >= Len(batch) THEN {m}
  ELSE LET rec  == batch[p + 1]
           flag == from_bits(rec.flags)
           path == from_utf8(rec.path)
       IN IF flag = {} \/ path = {}
          THEN callback_loop_SkipsMalformed(m, s, batch, p + 1)
          ELSE LET event == [op   |-> <<"Ok", translate_flags(CHOOSE f \in flag : TRUE)>>,
                             path |-> <<"Some", CHOOSE x \in path : TRUE>>]
                   sent  == IF m.rxAlive
                            THEN callback_loop_SkipsMalformed(
                                   [m EXCEPT !.out = Append(@, [session |-> s, event |-> event])],
                                   s, batch, p + 1)
                            ELSE callback_panic(m, s)
               IN IF m.ctxAlive[s] THEN sent
                  ELSE sent \cup {[m EXCEPT !.fault = "context"]}

\* The loop `for p in (0..num)` of callback, from record p on.  (*info) is
\* the context of session s; when that box has been freed the pointer
\* dangles and the send either works on the stale memory or faults.
RECURSIVE callback_loop(_, _, _, _)
callback_loop(m, s, batch, p) ==
  IF p >= Len(batch) THEN {m}
  ELSE LET rec  == batch[p + 1]
           flag == from_bits(rec.flags)
           path == from_utf8(rec.path)
       IN IF flag = {} THEN callback_panic(m, s)
          ELSE IF path = {} THEN callback_panic(m, s)
          ELSE LET event == [op   |-> <<"Ok", translate_flags(CHOOSE f \in flag : TRUE)>>,
                             path |-> <<"Some", CHOOSE x \in path : TRUE>>]
                   sent  == IF m.rxAlive
                            THEN callback_loop(
                                   [m EXCEPT !.out = Append(@, [session |-> s, event |-> event])],
                                   s, batch, p + 1)
                            ELSE callback_panic(m, s)
               IN IF m.ctxAlive[s] THEN sent
                  ELSE sent \cup {[m EXCEPT !.fault = "context"]}

\* Mutant of callback: the loop starts at record 1 instead of record 0.
callback_SkipsFirst(m, s, batch) == callback_loop(m, s, batch, 1)

callback(m, s, batch) == callback_loop(m, s, batch, 0)

RECURSIVE RecordCount(_)
RecordCount(log) ==
  IF log = << >> THEN 0 ELSE Len(Head(log).batch) + RecordCount(Tail(log))

\* The native service invokes callback on the thread of session s, which is
\* inside CFRunLoopRun, with a batch of records.
Callback(s, batch) ==
  /\ Live /\ thread[s] = "loop" /\ stream[s].st = "started"
  /\ RecordCount(delivered) + Len(batch) <= MaxRecords
  /\ LET entry == [session |-> s, batch |-> batch, rx |-> rxAlive]
     IN \E m \in callback([St EXCEPT !.delivered = Append(@, entry)], s, batch) :
          Becomes(m)

\* The consumer drops the Receiver<Event>.
ConsumerDrop ==
  /\ Live /\ rxAlive
  /\ Becomes([St EXCEPT !.rxAlive = FALSE])

\* ------------------------------------------------- the background thread
\* Mutant of thread_start: the loop handle is sent before the stream is
\* scheduled and started (lines 146-147 are missing).
thread_start_SendsUnstarted(m, s) ==
  IF m.ctl = "run_recv" /\ m.context = s
  THEN [m EXCEPT !.rlchan[s] = Append(@, s), !.thread[s] = "sent"]
  ELSE [m EXCEPT !.thread[s] = "panicked"]

\* lines 142-150: get the thread's run loop, schedule and start the stream,
\* send the loop handle (the handle of thread s is s).
thread_start(m, s) ==
  LET st == FSEventStreamStart(FSEventStreamScheduleWithRunLoop(m.stream[s]))
  IN IF m.ctl = "run_recv" /\ m.context = s
     THEN [m EXCEPT !.stream[s] = st, !.rlchan[s] = Append(@, s), !.thread[s] = "sent"]
     ELSE [m EXCEPT !.stream[s] = st, !.thread[s] = "panicked"]

\* line 151: CFRunLoopRun is entered
thread_run(m, s) == [m EXCEPT !.thread[s] = "loop"]

\* line 151: CFRunLoopRun returns, which it does on a stop request
thread_loop_exit(m, s) == [m EXCEPT !.thread[s] = "stopped", !.stopFlag[s] = FALSE]

\* Mutant of thread_cleanup: FSEventStreamInvalidate (line 153) is missing.
thread_cleanup_NoInvalidate(m, s) ==
  [m EXCEPT !.stream[s] = FSEventStreamRelease(FSEventStreamStop(@)),
            !.thread[s] = "cleaned"]

\* lines 152-154
thread_cleanup(m, s) ==
  [m EXCEPT !.stream[s] =
              FSEventStreamRelease(FSEventStreamInvalidate(FSEventStreamStop(@))),
            !.thread[s] = "cleaned"]

\* line 156: done_tx.send(()) fails, and expect panics, when done_rx is gone
thread_done(m, s) ==
  IF m.ctxAlive[s]
  THEN [m EXCEPT !.done[s] = "sent", !.thread[s] = "exited"]
  ELSE [m EXCEPT !.thread[s] = "panicked"]

ThreadStart(s) ==
  /\ Live /\ thread[s] = "spawned"
  /\ Becomes(thread_start(St, s))

ThreadRun(s) ==
  /\ Live /\ thread[s] = "sent"
  /\ Becomes(thread_run(St, s))

ThreadLoopExit(s) ==
  /\ Live /\ thread[s] = "loop" /\ stopFlag[s]
  /\ Becomes(thread_loop_exit(St, s))

ThreadCleanup(s) ==
  /\ Live /\ thread[s] = "stopped"
  /\ Becomes(thread_cleanup(St, s))

ThreadDone(s) ==
  /\ Live /\ thread[s] = "cleaned"
  /\ Becomes(thread_done(St, s))

ThreadNext(s) ==
  ThreadStart(s) \/ ThreadRun(s) \/ ThreadLoopExit(s) \/ ThreadCleanup(s) \/ ThreadDone(s)

\* ------------------------------------------------------------ specification
Next ==
  \/ \E p \in WatchArgs : WatchCall(p)
  \/ \E p \in UnwatchArgs : UnwatchCall(p)
  \/ RunCall
  \/ StopCall
  \/ DropCall
  \/ StopRecv
  \/ RunRecv
  \/ \E s \in Sessions : ThreadStart(s)
  \/ \E s \in Sessions : ThreadRun(s)
  \/ \E s \in Sessions : ThreadLoopExit(s)
  \/ \E s \in Sessions : ThreadCleanup(s)
  \/ \E s \in Sessions : ThreadDone(s)
  \/ \E s \in Sessions : \E b \in Batches : Callback(s, b)
  \/ ConsumerDrop

Spec == Init /\ [][Next]_vars

\* The scheduler runs every thread that can take a step: each background
\* thread and the controlling thread's pending receives.
FairSpec ==
  /\ Spec
  /\ \A s \in Sessions : WF_vars(ThreadNext(s))
  /\ WF_vars(StopRecv)
  /\ WF_vars(RunRecv)

\* ------------------------------------------- the translator on its inputs
\* Native flag bits the translator is exercised with: the five it maps, and
\* two it does not map (the inode-metadata and the is-file bit).
INODE_META_MOD == 1024

TranslateBits ==
  {ITEM_XATTR_MOD, ITEM_CREATED, ITEM_REMOVED, ITEM_RENAMED, ITEM_MODIFIED,
   INODE_META_MOD, IS_FILE}

RECURSIVE SumOf(_)
SumOf(S) == IF S = {} THEN 0 ELSE LET b == CHOOSE x \in S : TRUE IN b + SumOf(S \ {b})

\* Every StreamFlags value made of those bits.
FlagInputs == {SumOf(S) : S \in SUBSET TranslateBits}

\* A Manager whose first session, started by watch("/b"), is running and whose
\* thread is inside CFRunLoopRun.
TranslateInit ==
  /\ paths = <<"/b">>
  /\ runloop = 1
  /\ context = 1
  /\ ctl = "idle"
  /\ op = "none"
  /\ arg = ""
  /\ result = "Ok"
  /\ nextSession = 2
  /\ thread = [s \in Sessions |-> IF s = 1 THEN "loop" ELSE "none"]
  /\ stream = [s \in Sessions |-> IF s = 1 THEN [st |-> "started", releases |-> 0]
                                   ELSE [st |-> "none", releases |-> 0]]
  /\ stopFlag = [s \in Sessions |-> FALSE]
  /\ rlchan = [s \in Sessions |-> << >>]
  /\ done = [s \in Sessions |-> "empty"]
  /\ ctxAlive = [s \in Sessions |-> s = 1]
  /\ rxAlive = TRUE
  /\ out = << >>
  /\ delivered = << >>
  /\ fault = "none"

\* The native service delivers one record with the flags f to the callback,
\* which translates them (line 189).
TranslateCallback(f) ==
  /\ delivered = << >>
  /\ Callback(1, <<[path |-> <<102>>, flags |-> f]>>)

TranslateNext == \E f \in FlagInputs : TranslateCallback(f)

TranslateSpec == TranslateInit /\ [][TranslateNext]_vars

\* ------------------------------------------------ remove_path on its inputs
\* Every path array of up to MaxPaths entries, duplicates included.
RECURSIVE PathArrays(_)
PathArrays(n) ==
  IF n = 0 THEN {<< >>}
  ELSE LET shorter == PathArrays(n - 1)
       IN shorter \cup {Append(a, p) : a \in {x \in shorter : Len(x) = n - 1}, p \in WatchArgs}

\* A stopped Manager holding any such array: the sessions of the watch calls
\* that filled it have ended, and sessions are numbered from the next one.
RemoveInit ==
  /\ paths \in PathArrays(MaxPaths)
  /\ runloop = NoSession
  /\ context = NoSession
  /\ ctl = "idle"
  /\ op = "none"
  /\ arg = ""
  /\ result = "unit"
  /\ nextSession = 1
  /\ thread = [s \in Sessions |-> "none"]
  /\ stream = [s \in Sessions |-> [st |-> "none", releases |-> 0]]
  /\ stopFlag = [s \in Sessions |-> FALSE]
  /\ rlchan = [s \in Sessions |-> << >>]
  /\ done = [s \in Sessions |-> "empty"]
  /\ ctxAlive = [s \in Sessions |-> FALSE]
  /\ rxAlive = TRUE
  /\ out = << >>
  /\ delivered = << >>
  /\ fault = "none"

\* unwatch(p) on the stopped Manager: remove_path(p), then run().
RemoveCall(p) == nextSession = 1 /\ UnwatchCall(p)

RemoveNext == \E p \in UnwatchArgs : RemoveCall(p)

RemoveSpec == RemoveInit /\ [][RemoveNext]_vars

\* ------------------------------------------------------------------ claims

\* C1: under fair scheduling, a stop() that has signalled the run loop of a
\* running session and waits for the completion signal eventually returns
\* with is_running() = false and the session's thread exited (or the process
\* has ended in a fatal state).  Stated for the first session of a Manager,
\* the case of stop() called right after watch() has returned.
C1_StopEventuallyReturns ==
  (op = "stop" /\ ctl = "stop_recv" /\ context = 1 /\ nextSession = 2)
    ~> \/ fault # "none"
       \/ ctl = "panicked"
       \/ (ctl = "idle" /\ runloop = NoSession /\ thread[1] = "exited")

\* Helpers of the claims.
\* The background threads that are alive.
AliveThreads == {s \in Sessions : thread[s] \in {"spawned", "sent", "loop", "stopped", "cleaned"}}

\* Clones of the outbound Sender that exist: the Manager's own, until the
\* Manager is dropped, and one in every allocated session context.
LiveSenders ==
  (IF ctl = "dropped" THEN 0 ELSE 1) + Cardinality({s \in Sessions : ctxAlive[s]})

\* The events session s has published, in order.
SessionEvents(o, s) ==
  LET mine == SelectSeq(o, LAMBDA e : e.session = s)
  IN [i \in 1 .. Len(mine) |-> mine[i].event]

\* The batches delivered to the callback of session s, in order.
SessionLog(s) == SelectSeq(delivered, LAMBDA e : e.session = s)

\* The Event of a raw record: Ok(translated flags), Some(path).
EventOf(rec) == [op |-> <<"Ok", translate_flags(rec.flags)>>, path |-> <<"Some", rec.path>>]

EventsOf(recs) == [i \in 1 .. Len(recs) |-> EventOf(recs[i])]

\* A record the callback cannot decode.
Malformed(rec) == rec.flags >= FLAGS_LIMIT \/ \E i \in 1 .. Len(rec.path) : rec.path[i] >= 128

\* The records of a delivered batch that precede its first fatal record: none
\* when the channel had no receiver, else those before the first malformed one.
RECURSIVE GoodPrefix(_)
GoodPrefix(recs) ==
  IF recs = << >> \/ Malformed(Head(recs)) THEN << >>
  ELSE <<Head(recs)>> \o GoodPrefix(Tail(recs))

Publishable(entry) == IF entry.rx THEN GoodPrefix(entry.batch) ELSE << >>

RECURSIVE AllRecords(_)
AllRecords(log) ==
  IF log = << >> THEN << >> ELSE Head(log).batch \o AllRecords(Tail(log))

RECURSIVE AllPublishable(_)
AllPublishable(log) ==
  IF log = << >> THEN << >> ELSE Publishable(Head(log)) \o AllPublishable(Tail(log))

IsPrefix(a, b) == Len(a) <= Len(b) /\ SubSeq(b, 1, Len(a)) = a

\* C2: run() entered with an empty path array returns Err(PathNotFound),
\* leaves is_running() false and creates no context, stream or thread;
\* entered with a non-empty array it starts a session, and when it returns
\* it returns Ok with is_running() true.  A session is only ever started
\* over a non-empty path array.
C2_RunContract ==
  [][ /\ (RunCall /\ Len(paths) = 0) =>
            /\ result' = "PathNotFound" /\ ctl' = "idle"
            /\ runloop = NoSession /\ runloop' = NoSession
            /\ UNCHANGED <<paths, context, nextSession, thread, stream, ctxAlive, rlchan, done>>
      /\ (RunCall /\ Len(paths) > 0) =>
            /\ ctl' = "run_recv" /\ nextSession' = nextSession + 1
            /\ thread'[nextSession] = "spawned" /\ context' = nextSession
      /\ (RunRecv /\ op = "run") =>
            /\ result' = "Ok" /\ ctl' = "idle" /\ runloop' # NoSession
      /\ (nextSession' # nextSession) =>
            /\ Len(paths') > 0 /\ thread'[nextSession] = "spawned"
            /\ ctxAlive'[nextSession] /\ stream'[nextSession].st = "created"
    ]_vars

\* C2 witness: a run() on a Manager whose sessions have ended and whose path
\* array is empty has returned PathNotFound and the Manager is not running.
C2_Witness ==
  /\ ctl = "idle" /\ result = "PathNotFound" /\ Len(paths) = 0
  /\ runloop = NoSession /\ nextSession > 1

\* C3: the path array never holds two entries that are equal under
\* case-insensitive comparison.
C3_NoCaseInsensitiveDuplicates ==
  \A i, j \in 1 .. Len(paths) :
    i # j => CFStringCompare(paths[i], paths[j]) # "kCFCompareEqualTo"

\* C4: at most one background thread of the Manager is alive at any time.
C4_AtMostOneThread == Cardinality(AliveThreads) <= 1

\* C5: stop() called on a Manager with no running session (is_running() is
\* false, or no session was ever started, or every session's thread has
\* exited after a stop) changes no state, sends no stop request, does not
\* block and returns.
C5_StopIdempotent ==
  [][ (StopCall /\ (runloop = NoSession
                     \/ \A s \in Sessions : thread[s] \in {"none", "exited"})) =>
        /\ ctl' = "idle" /\ result' = "unit"
        /\ UNCHANGED <<paths, runloop, context, nextSession, thread, stream, stopFlag,
                       rlchan, done, ctxAlive, rxAlive, out, delivered, fault>>
    ]_vars

\* C5 witness: stop() has returned on a Manager that never started a session.
C5_Witness == ctl = "idle" /\ result = "unit" /\ nextSession = 1

\* C6: once stop() has received the completion signal of a session, that
\* session publishes no further event.
C6_NoEventAfterStop ==
  [][ \A s \in Sessions :
        done[s] = "received" => SessionEvents(out', s) = SessionEvents(out, s) ]_vars

\* C6 witness: a session that published events has been stopped.
C6_Witness ==
  \E s \in Sessions : done[s] = "received" /\ Len(SessionEvents(out, s)) > 0

\* C7: unwatch(p) returns Ok in every Manager state: the call never dies in
\* its own code (stated for the calls that leave no entry equal to p in the
\* array), and when it returns it returns Ok, leaving the Manager idle with
\* no context if the path array is now empty and running otherwise.
C7_UnwatchAlwaysOk ==
  /\ [](op = "unwatch"
          /\ (\A i \in 1 .. Len(paths) :
                CFStringCompare(paths[i], arg) # "kCFCompareEqualTo")
        => fault # "remove_path")
  /\ [][ (op = "unwatch" /\ op' = "none") =>
           /\ result' = "Ok" /\ ctl' = "idle"
           /\ IF Len(paths') = 0
              THEN runloop' = NoSession /\ context' = NoSession
              ELSE runloop' # NoSession /\ context' # NoSession ]_vars

\* C8: the step that completes the drop of a Manager completes the stop
\* handshake of the session it held: that session's thread has exited and
\* released its stream, and afterwards no clone of the outbound sender is
\* left and the Manager holds neither loop handle nor context.
C8_DropStops ==
  [][ (ctl' = "dropped" /\ ctl # "dropped") =>
        /\ (context # NoSession =>
              /\ thread[context] = "exited" /\ done[context] = "sent"
              /\ stream[context].st = "released")
        /\ runloop = NoSession
        /\ runloop' = NoSession /\ context' = NoSession
        /\ LiveSenders' = 0
    ]_vars

\* C8 witness: a running Manager is being dropped and its thread has sent
\* the completion signal drop is waiting for.
C8_Witness == op = "drop" /\ ctl = "stop_recv" /\ done[context] = "sent"

\* C9: a session's stream is stopped, invalidated and released once, in
\* that order, by the session's thread after its run loop has returned and
\* before the completion signal, never while the Manager holds the
\* session's loop handle and never in a step of the controlling thread.
C9_StreamState ==
  \A s \in Sessions :
    /\ stream[s].st # "error"
    /\ stream[s].releases <= 1
    /\ stream[s].releases = 1 <=> stream[s].st = "released"
    /\ stream[s].st = "released" => thread[s] \in {"cleaned", "exited", "panicked"}
    /\ done[s] # "empty" => stream[s].st = "released"
    /\ thread[s] = "exited" => stream[s].st = "released"
    /\ runloop = s => stream[s].releases = 0

C9_ReleasedOnceByThread ==
  /\ []C9_StreamState
  /\ [][ \A s \in Sessions :
           stream'[s].releases # stream[s].releases =>
             /\ thread[s] = "stopped" /\ thread'[s] = "cleaned"
             /\ done[s] = "empty"
             /\ UNCHANGED <<ctl, op, paths, runloop, context>> ]_vars

\* C9 witness: a session's stream has been released and its completion
\* signal received.
C9_Witness ==
  \E s \in Sessions : stream[s].st = "released" /\ stream[s].releases = 1 /\ done[s] = "received"

\* C10 as stated: while the process lives, a session has published exactly
\* one Event per record of every batch delivered to it, in order.
C10_OneEventPerRecord ==
  fault = "none" =>
    \A s \in Sessions : SessionEvents(out, s) = EventsOf(AllRecords(SessionLog(s)))

\* C10 amended: a session has published exactly one Event per record that
\* precedes the first fatal record of its batch, batches in delivery order
\* and records in batch order; when a fault killed the process inside a
\* callback, what was published is a prefix of that.
C10_PublishedInOrder ==
  \A s \in Sessions :
    LET want == EventsOf(AllPublishable(SessionLog(s)))
    IN IF fault = "none" THEN SessionEvents(out, s) = want
       ELSE IsPrefix(SessionEvents(out, s), want)

\* C10 witness: a session received two batches, published an event and then
\* hit a fatal record, so that fewer events than records were published.
C10_Witness ==
  \E s \in Sessions :
    /\ fault = "none" /\ thread[s] = "panicked"
    /\ Len(SessionLog(s)) = 2
    /\ Len(SessionEvents(out, s)) >= 1
    /\ Len(SessionEvents(out, s)) < Len(AllRecords(SessionLog(s)))

\* Helpers of C11: the members of a flag value and of an Op value, and the Op
\* bit the translator's table gives a native flag (0: none).
OpBits == {CHMOD, CREATE, REMOVE, RENAME, WRITE}
FlagMembers(f) == {b \in TranslateBits : (f \div b) % 2 = 1}
OpMembers(r) == {o \in OpBits : (r \div o) % 2 = 1}
OpOf(b) ==
  CASE b = ITEM_XATTR_MOD -> CHMOD
    [] b = ITEM_CREATED   -> CREATE
    [] b = ITEM_REMOVED   -> REMOVE
    [] b = ITEM_RENAMED   -> RENAME
    [] b = ITEM_MODIFIED  -> WRITE
    [] OTHER              -> 0

\* C11: the Op of every published Event holds exactly the Op bits of the
\* mapped members of the record's native flags and nothing else: one mapped
\* flag gives its one bit, several give the union, unmapped flags give none.
C11_TranslateExact ==
  /\ Len(out) = RecordCount(delivered)
  /\ \A i \in 1 .. Len(out) :
       LET f == delivered[i].batch[1].flags
           r == out[i].event.op[2]
       IN /\ out[i].event.op[1] = "Ok"
          /\ r \in 0 .. (CHMOD + CREATE + REMOVE + RENAME + WRITE)
          /\ OpMembers(r) = {OpOf(b) : b \in FlagMembers(f)} \ {0}

\* C11 witness: a record flagged renamed, modified and is-file was published
\* as an Event whose Op is RENAME and WRITE.
C11_Witness ==
  /\ Len(delivered) = 1 /\ Len(out) = 1
  /\ delivered[1].batch[1].flags = ITEM_RENAMED + ITEM_MODIFIED + IS_FILE
  /\ out[1].event.op = <<"Ok", RENAME + WRITE>>

\* Helper of C12, C17 and C18: the step in which unwatch(p) runs its
\* remove_path, which is the call itself when no session was running and the
\* return of the completion receive otherwise.
RemoveStep(p) ==
  \/ UnwatchCall(p) /\ ctl' # "stop_recv"
  \/ StopRecv /\ op = "unwatch" /\ arg = p /\ ctl' # "panicked"

\* The entries of arr that do not equal p case-insensitively, in order.
WithoutMatches(arr, p) ==
  SelectSeq(arr, LAMBDA x : CFStringCompare(x, p) # "kCFCompareEqualTo")

\* C12: a remove_path(p) that returns leaves exactly the entries that do not
\* equal p case-insensitively, in their order, whatever the array held.
C12_RemovesEveryMatch ==
  [][ \A p \in UnwatchArgs :
        (RemoveStep(p) /\ fault' = "none") => paths' = WithoutMatches(paths, p) ]_vars

\* C18: during remove_path every index read or removed at is smaller than
\* the array's current length: no run of the loop reads out of range, and
\* the process does not fault in it.  Stated for the arrays in which at most
\* one entry equals the argument.
C18_IndexInRange ==
  [][ \A p \in UnwatchArgs :
        (RemoveStep(p) /\ Len(paths) - Len(WithoutMatches(paths, p)) <= 1) =>
          /\ fault' # "remove_path"
          /\ \A r \in remove_path(paths, p) : ~r.oob ]_vars

\* C13: run() returns only by storing the handle its own session's thread
\* sent after scheduling and starting the stream; so a Manager between calls
\* that is running holds the handle of its current session, and every stop
\* request is issued to the loop of the session whose context is held.
C13_HandleState ==
  (ctl = "idle" /\ runloop # NoSession) =>
    /\ runloop = context
    /\ thread[runloop] \notin {"none", "spawned"}
    /\ stream[runloop].st = "started"
    /\ rlchan[runloop] = << >>

C13_StopTargetsCurrentLoop ==
  /\ []C13_HandleState
  /\ [][ RunRecv =>
           /\ rlchan[context] = <<context>>
           /\ thread[context] \notin {"none", "spawned"}
           /\ stream[context].st = "started"
           /\ runloop' = context /\ context' = context
           /\ ctl' = "idle" /\ result' = "Ok" ]_vars
  /\ [][ \A s \in Sessions :
           (stopFlag'[s] /\ ~stopFlag[s]) =>
             /\ ctl = "idle" /\ runloop = s /\ context = s
             /\ thread[s] \in {"sent", "loop"} ]_vars
  /\ [][ (ctl = "idle" /\ ctl' = "stop_recv") =>
           /\ runloop = context /\ runloop' = NoSession /\ context' = context
           /\ thread[context] \notin {"none", "spawned"} ]_vars

\* C13 witness: stop() has issued its stop request to the loop of the second
\* session, whose thread is inside CFRunLoopRun.
C13_Witness ==
  /\ ctl = "stop_recv" /\ op = "stop" /\ context = 2
  /\ stopFlag[2] /\ thread[2] = "loop" /\ thread[1] = "exited"

\* C14: in the calls watch, unwatch, stop and drop the context of a session
\* is dropped only in the step that receives the session's completion
\* signal, when its thread has exited; so while these calls are the only
\* ones made, a thread that can still invoke the callback has its context.
C14_ContextOutlivesThread ==
  [][ \A s \in Sessions :
        (ctxAlive[s] /\ ~ctxAlive'[s] /\ ~RunCall) =>
          /\ StopRecv /\ context = s
          /\ thread[s] = "exited" /\ done[s] = "sent" /\ done'[s] = "received"
          /\ stream[s].st = "released" ]_vars

\* C14 witness: the context of a session whose callback published an event
\* has been dropped by the stop() inside unwatch.
C14_Witness ==
  /\ op = "unwatch" /\ ~ctxAlive[1] /\ done[1] = "received"
  /\ Len(SessionEvents(out, 1)) > 0

\* C15: when the thread of the session stop() waits for has terminated
\* without sending the completion signal, the stop() does not return: the
\* controlling thread stays in the receive until it panics, and under fair
\* scheduling it does panic (unless the process has died before).
C15_ThreadGone ==
  /\ ctl = "stop_recv" /\ context # NoSession
  /\ thread[context] = "panicked" /\ done[context] = "empty"

C15_StopPanics ==
  /\ [][ C15_ThreadGone =>
           /\ ctl' \in {"stop_recv", "panicked"}
           /\ result' = "none" /\ op' = op /\ context' = context
           /\ done'[context] = "empty" ]_vars
  /\ [][ ctl' = "panicked" => (ctl = "panicked" \/ C15_ThreadGone) ]_vars
  /\ (C15_ThreadGone ~> (ctl = "panicked" \/ fault # "none"))

\* C15 witness: a stop() has panicked after the session's thread died in the
\* callback without sending the completion signal.
C15_Witness ==
  /\ ctl = "panicked" /\ op = "stop" /\ context # NoSession
  /\ thread[context] = "panicked" /\ done[context] = "empty"

\* Helpers of C16: the batch entry a callback step has added, and the outbound
\* entries of the Events of records recs of session s.
LastDelivered == delivered[Len(delivered)]
Published(s, recs) == [i \in 1 .. Len(recs) |-> [session |-> s, event |-> EventOf(recs[i])]]

\* C16: a callback invocation whose batch has a fatal record k (malformed, or
\* sent when no receiver is left) publishes the Events of records 0..k-1 and
\* nothing for record k and the later ones, and ends in a fatal state: the
\* thread has panicked or the process has aborted.  No published Event stems
\* from a malformed record.
C16_FatalRecordEndsBatch ==
  [][ (Len(delivered') = Len(delivered) + 1) =>
        LET e    == LastDelivered'
            good == Publishable(e)
        IN (Len(good) < Len(e.batch)) =>
             /\ thread[e.session] = "loop"
             /\ IF fault' = "context"
                THEN IsPrefix(out', out \o Published(e.session, good)) /\ IsPrefix(out, out')
                ELSE /\ out' = out \o Published(e.session, good)
                     /\ thread'[e.session] = "panicked" \/ fault' = "abort"
             /\ \A i \in Len(out) + 1 .. Len(out') :
                  \E j \in 1 .. Len(e.batch) :
                    ~Malformed(e.batch[j]) /\ out'[i].event = EventOf(e.batch[j]) ]_vars

\* C16 witness: the callback was given a batch whose second record has
\* unknown flag bits; it has published the first record's Event only and the
\* thread has panicked.
C16_Witness ==
  /\ Len(delivered) = 1 /\ Len(out) = 1
  /\ delivered[1].batch = <<RecCreated, RecBadFlag, RecRenamed>>
  /\ out[1].event = EventOf(RecCreated)
  /\ thread[delivered[1].session] = "panicked"

\* C17: the path array is changed only by the append_path of watch and the
\* remove_path of unwatch (and released by drop): stop(), a run() that
\* succeeds, a run() that fails with PathNotFound, the threads and the
\* callback leave it unchanged, so after a failed start it is what the last
\* append or removal left.
C17_PathsFrame ==
  [][ /\ (StopCall \/ RunCall \/ RunRecv \/ (StopRecv /\ op = "stop")) => paths' = paths
      /\ (result' = "PathNotFound" /\ result # "PathNotFound") =>
           RunCall /\ paths = << >> /\ paths' = << >>
      /\ (paths' # paths) =>
           \/ \E p \in WatchArgs :
                /\ WatchCall(p) \/ (StopRecv /\ op = "watch" /\ arg = p)
                /\ paths' = append_path(paths, p)
           \/ \E p \in UnwatchArgs :
                /\ RemoveStep(p)
                /\ \E r \in remove_path(paths, p) : paths' = r.paths
           \/ ctl' = "dropped" /\ paths' = << >> ]_vars

\* C17 witness: stop() has returned on a Manager whose one session has
\* ended, and the path the watch call appended is still in the array.
C17_Witness ==
  /\ ctl = "idle" /\ result = "unit" /\ runloop = NoSession
  /\ Len(paths) = 1 /\ done[1] = "received" /\ nextSession = 2

\* C19: between calls, when the last call has returned, the Manager holds a
\* loop handle exactly when it holds a session context.
C19_HandleIffContext ==
  (ctl = "idle" /\ fault = "none") => (runloop # NoSession <=> context # NoSession)

\* C19 witness: a second session runs after the first was stopped: handle
\* and context were both cleared by the stop and are both set again.
C19_Witness ==
  /\ ctl = "idle" /\ runloop = 2 /\ context = 2
  /\ done[1] = "received" /\ ~ctxAlive[1] /\ ctxAlive[2]

\* C20: whenever is_running() is true the path array is not empty.
C20_RunningHasPaths == runloop # NoSession => Len(paths) > 0

\* C20 witness: after watch and an unwatch of another path, which stopped
\* the first session, removed nothing and started the second, the Manager is
\* running over the one path.
C20_Witness ==
  /\ ctl = "idle" /\ result = "Ok" /\ runloop = 2 /\ thread[2] = "loop"
  /\ paths = <<"/tmp/X">> /\ thread[1] = "exited"

====
